---------------------------- MODULE Spec2Model ----------------------------
(***************************************************************************)
(* A model of tok_gen.py: create_token, verify_token and the command-line  *)
(* dispatcher, together with the parts of their collaborators that decide  *)
(* what they return: Python's int(), the naive local datetime arithmetic   *)
(* of datetime.now() / timedelta / timestamp(), and PyJWT's HS256 encode   *)
(* and decode.                                                             *)
(*                                                                         *)
(* Strings that are parsed character by character (the expiration          *)
(* shorthand) are sequences of one-character strings; opaque strings       *)
(* (subjects, names, secrets) are TLA+ strings.  Times are integer seconds *)
(* since the epoch; the clock moves in whole hours.                        *)
(***************************************************************************)
EXTENDS Integers, Sequences, FiniteSets, TLC

VARIABLES
    now,      \* the system clock, seconds since the epoch
    tz,       \* the local time zone rule of the process (TZ)
    env,      \* the value of the JWT_SECRET environment variable
    issued,   \* the token most recently returned by create_token, with its arguments
    last,     \* what the step just taken did: the call or run, its outcome and output
    pin,      \* an expiration shorthand under test
    pout      \* the duration parsed from pin

vars == <<now, tz, env, issued, last, pin, pout>>

---------------------------------------------------------------------------
(* Bounds *)

MaxLen == 3       \* longest shorthand drawn in SpecParse
MaxHour == 2      \* the clock runs from 0 to MaxHour hours

---------------------------------------------------------------------------
(* Program constants *)

Hour == 3600
Day == 24 * Hour
DefaultHours == 24
DefaultSecret == "your-secret-key-here-replace-in-production"

\* Python's None, distinct from every string of the model
None == "<None>"
\* JWT_SECRET absent from the environment
EnvUnset == "<unset>"

---------------------------------------------------------------------------
(* Python string and integer conversion *)

Digits == {"0", "1", "2", "3", "4", "5", "6", "7", "8", "9"}

DigitVal(c) ==
    CASE c = "0" -> 0 [] c = "1" -> 1 [] c = "2" -> 2 [] c = "3" -> 3
      [] c = "4" -> 4 [] c = "5" -> 5 [] c = "6" -> 6 [] c = "7" -> 7
      [] c = "8" -> 8 [] c = "9" -> 9

\* str.endswith for a one-character suffix
endswith(s, c) == Len(s) > 0 /\ s[Len(s)] = c

\* s[:-1]
DropLast(s) == IF Len(s) = 0 THEN s ELSE SubSeq(s, 1, Len(s) - 1)

AllDigits(s) == Len(s) > 0 /\ \A i \in 1..Len(s) : s[i] \in Digits

\* the strings int() accepts: an optional sign, then one or more digits
\* (surrounding whitespace and digit-group underscores are outside the alphabet)
IsIntLiteral(s) ==
    IF Len(s) > 0 /\ s[1] \in {"+", "-"}
    THEN AllDigits(Tail(s))
    ELSE AllDigits(s)

RECURSIVE DecimalValue(_)
DecimalValue(s) ==
    IF Len(s) = 0 THEN 0
    ELSE 10 * DecimalValue(DropLast(s)) + DigitVal(s[Len(s)])

\* int(s) for a string int() accepts
int(s) ==
    IF s[1] = "-" THEN 0 - DecimalValue(Tail(s))
    ELSE IF s[1] = "+" THEN DecimalValue(Tail(s))
    ELSE DecimalValue(s)

\* expires_delta with a day counted as an hour
expires_delta_day_as_hour(expires_in) ==
    IF endswith(expires_in, "h") \/ endswith(expires_in, "d")
    THEN IF IsIntLiteral(DropLast(expires_in))
         THEN [raised |-> "none", seconds |-> int(DropLast(expires_in)) * Hour]
         ELSE [raised |-> "ValueError", seconds |-> 0]
    ELSE [raised |-> "none", seconds |-> DefaultHours * Hour]

\* expires_delta with the int() failure caught and replaced by the default
expires_delta_lenient(expires_in) ==
    IF endswith(expires_in, "h") /\ IsIntLiteral(DropLast(expires_in))
    THEN [raised |-> "none", seconds |-> int(DropLast(expires_in)) * Hour]
    ELSE IF endswith(expires_in, "d") /\ IsIntLiteral(DropLast(expires_in))
    THEN [raised |-> "none", seconds |-> int(DropLast(expires_in)) * Day]
    ELSE [raised |-> "none", seconds |-> DefaultHours * Hour]

\* Lines 29-35: the timedelta computed from the shorthand, in seconds, or the
\* ValueError int() raises on a prefix it does not accept
expires_delta(expires_in) ==
    IF endswith(expires_in, "h")
    THEN IF IsIntLiteral(DropLast(expires_in))
         THEN [raised |-> "none", seconds |-> int(DropLast(expires_in)) * Hour]
         ELSE [raised |-> "ValueError", seconds |-> 0]
    ELSE IF endswith(expires_in, "d")
    THEN IF IsIntLiteral(DropLast(expires_in))
         THEN [raised |-> "none", seconds |-> int(DropLast(expires_in)) * Day]
         ELSE [raised |-> "ValueError", seconds |-> 0]
    ELSE [raised |-> "none", seconds |-> DefaultHours * Hour]

---------------------------------------------------------------------------
(* Naive local time: datetime.now(), datetime + timedelta, timestamp() *)

\* A time zone rule: the UTC offset is `before` up to the instant `at` and
\* `after` from then on
TransitionAt == Hour
UTC == [before |-> 0, at |-> 0, after |-> 0]
FallBack == [before |-> Hour, at |-> TransitionAt, after |-> 0]
Zones == {UTC, FallBack}

utcoffset(z, u) == IF u < z.at THEN z.before ELSE z.after

\* time.localtime: the wall clock reading at the instant u, in seconds
localtime(z, u) == u + utcoffset(z, u)

max_fold_seconds == 24 * 3600

Max(a, b) == IF a >= b THEN a ELSE b
Min(a, b) == IF a <= b THEN a ELSE b

\* datetime.now(): the naive wall clock reading at the instant t, with the
\* fold flag set on the second pass through a repeated hour
datetime_now(z, t) ==
    LET wall == localtime(z, t)
        trans == wall - localtime(z, t - max_fold_seconds) - max_fold_seconds
        fold == IF trans < 0 /\ localtime(z, t + trans) = wall THEN 1 ELSE 0
    IN  [wall |-> wall, fold |-> fold]

\* naive datetime + timedelta: wall clock arithmetic, the fold flag is dropped
datetime_add(dt, seconds) == [wall |-> dt.wall + seconds, fold |-> 0]

\* int(naive.timestamp()): the instant at which the local wall clock reads dt
timestamp(z, dt) ==
    LET t == dt.wall
        a == localtime(z, t) - t
        u1 == t - a
        t1 == localtime(z, u1)
        probe == u1 + (IF dt.fold = 1 THEN max_fold_seconds ELSE 0 - max_fold_seconds)
        b == IF t1 = t THEN localtime(z, probe) - probe ELSE t1 - u1
        u2 == t - b
        t2 == localtime(z, u2)
    IN  IF t1 = t /\ a = b THEN u1
        ELSE IF t2 = t THEN u2
        ELSE IF t1 = t THEN u1
        ELSE IF dt.fold = 1 THEN Min(u1, u2) ELSE Max(u1, u2)

---------------------------------------------------------------------------
(* PyJWT, HS256 *)

\* a secret PyJWT refuses as an HMAC key (it names an SSH public key format)
AsymmetricSecret == "ssh-rsa AAAAB3NzaC1yc2E"
IsAsymmetricKey(key) == key = AsymmetricSecret

NoPayload == [sub |-> None, iat |-> 0, exp |-> 0, name |-> None]
NoSig == [key |-> None, msg |-> NoPayload]

\* the HMAC-SHA256 tag of msg under key
Hmac(key, msg) == [key |-> key, msg |-> msg]

\* token strings: form "absent" is no string at all (None), "empty" is "",
\* "garbage" is a string that is not three dot-separated segments, "jws" is
\* header.payload.signature
NoToken == [form |-> "absent", alg |-> "", payload |-> NoPayload, sig |-> NoSig]
EmptyToken == [form |-> "empty", alg |-> "", payload |-> NoPayload, sig |-> NoSig]
GarbageToken == [form |-> "garbage", alg |-> "", payload |-> NoPayload, sig |-> NoSig]

\* jwt.encode(payload, key, algorithm="HS256")
jwt_encode(payload, key) ==
    IF IsAsymmetricKey(key)
    THEN [raised |-> "InvalidKeyError", token |-> NoToken]
    ELSE [raised |-> "none",
          token |-> [form |-> "jws", alg |-> "HS256", payload |-> payload,
                     sig |-> Hmac(key, payload)]]

\* jwt.decode(token, key, algorithms=["HS256"]) at the instant t: the exception
\* it raises, or "none" and the payload
jwt_decode(token, key, t) ==
    IF token.form # "jws"
    THEN [raised |-> "DecodeError", payload |-> NoPayload]
    ELSE IF token.alg # "HS256"
    THEN [raised |-> "InvalidAlgorithmError", payload |-> NoPayload]
    ELSE IF IsAsymmetricKey(key)
    THEN [raised |-> "InvalidKeyError", payload |-> NoPayload]
    ELSE IF token.sig # Hmac(key, token.payload)
    THEN [raised |-> "InvalidSignatureError", payload |-> NoPayload]
    ELSE IF token.payload.iat > t
    THEN [raised |-> "ImmatureSignatureError", payload |-> NoPayload]
    ELSE IF token.payload.exp <= t
    THEN [raised |-> "ExpiredSignatureError", payload |-> NoPayload]
    ELSE [raised |-> "none", payload |-> token.payload]

\* the subclasses of jwt.InvalidTokenError (InvalidKeyError is not one)
InvalidTokenErrors ==
    {"DecodeError", "InvalidAlgorithmError", "InvalidSignatureError",
     "ImmatureSignatureError", "ExpiredSignatureError"}

---------------------------------------------------------------------------
(* create_token and verify_token *)

\* os.environ.get("JWT_SECRET", "your-secret-key-here-replace-in-production")
environ_get(e) == IF e = EnvUnset THEN DefaultSecret ELSE e

\* create_secret without the environment tier
create_secret_skips_environment(secret, e) ==
    IF secret # None /\ secret # "" THEN secret ELSE DefaultSecret

\* verify_secret without the argument tier
verify_secret_ignores_argument(secret, e) == environ_get(e)

\* Line 27: secret = secret or os.environ.get(...)
create_secret(secret, e) ==
    IF secret # None /\ secret # "" THEN secret ELSE environ_get(e)

\* Line 67: secret = secret or os.environ.get(...)
verify_secret(secret, e) ==
    IF secret # None /\ secret # "" THEN secret ELSE environ_get(e)

\* Lines 26-54.  printed: the payload was written to standard output
\* (line 48); signed: jwt.encode produced a signature; key: the resolved
\* secret; token: the returned string
create_token(subject, name, expires_in, secret, e, z, t) ==
    LET key == create_secret(secret, e)
        delta == expires_delta(expires_in)
        issued_at == datetime_now(z, t)
        expires_at == datetime_add(issued_at, delta.seconds)
        payload == [sub |-> subject,
                    iat |-> timestamp(z, issued_at),
                    exp |-> timestamp(z, expires_at),
                    name |-> None]
        named == IF name # None /\ name # ""
                 THEN [payload EXCEPT !.name = name] ELSE payload
        enc == jwt_encode(named, key)
    IN  IF delta.raised # "none"
        THEN [raised |-> delta.raised, printed |-> FALSE, signed |-> FALSE,
              key |-> key, payload |-> NoPayload, token |-> NoToken]
        ELSE [raised |-> enc.raised, printed |-> TRUE,
              signed |-> (enc.raised = "none"), key |-> key,
              payload |-> named, token |-> enc.token]

\* Lines 67-74
verify_token(token, secret, e, t) ==
    LET key == verify_secret(secret, e)
        dec == jwt_decode(token, key, t)
    IN  IF dec.raised = "none"
        THEN [raised |-> "none", msg |-> "", key |-> key, payload |-> dec.payload]
        ELSE IF dec.raised = "ExpiredSignatureError"
        THEN [raised |-> "ValueError", msg |-> "Token has expired", key |-> key,
              payload |-> NoPayload]
        ELSE IF dec.raised \in InvalidTokenErrors
        THEN [raised |-> "ValueError", msg |-> "Invalid token", key |-> key,
              payload |-> NoPayload]
        ELSE [raised |-> dec.raised, msg |-> "", key |-> key, payload |-> NoPayload]

---------------------------------------------------------------------------
(* Inputs *)

\* (subject, name) pairs passed to create_token
Callers == { <<"alice", None>>, <<"bob", "Al">> }
\* the secret arguments of create_token and of verify_token in Spec
CreateSecrets == {None, "", "k1"}
Secrets == {None, "", "k1", AsymmetricSecret}
EnvValues == {EnvUnset, "k1"}

\* the shorthands passed to create_token in Spec
ExpiresArgs ==
    { <<"1", "h">>, <<"0", "h">>, <<"-", "1", "d">>, <<"3", "0", "m">>,
      <<"h">>, <<"x", "d">> }

\* the shorthands drawn in SpecParse: every string of at most MaxLen characters
Alphabet == {"0", "1", "2", "3", "4", "7", "-", "x", ".", "h", "d", "m"}
Shorthands == UNION { [1..n -> Alphabet] : n \in 0..MaxLen }

\* the token strings handed to verify_token: the one create_token returned
\* last, that one with its signature segment altered, that one with its
\* header's alg replaced, and strings that are no token
TokenKinds == {"issued", "tampered", "unsigned", "garbage"}

TokenInput(kind) ==
    CASE kind = "issued" -> issued.token
      [] kind = "tampered" ->
            IF issued.token.form = "jws"
            THEN [issued.token EXCEPT !.sig = [key |-> "<altered>", msg |-> @.msg]]
            ELSE GarbageToken
      [] kind = "unsigned" ->
            IF issued.token.form = "jws"
            THEN [issued.token EXCEPT !.alg = "none"]
            ELSE GarbageToken
      [] kind = "garbage" -> GarbageToken
      [] kind = "empty" -> EmptyToken
      [] kind = "absent" -> NoToken

\* the command lines of SpecCli
CliSubjects == {None, "alice"}
CliSecrets == {None, "k1", AsymmetricSecret}
CliExpires == { <<"2", "4", "h">>, <<"1", "h">>, <<"x", "h">> }
CliTokens == {"absent", "empty", "garbage", "issued"}

---------------------------------------------------------------------------
(* State *)

NothingIssued ==
    [token |-> NoToken, subject |-> None, expires_in |-> <<>>, secret |-> None]

\* the record of a step: which operation ran (op), with which arguments
\* (subject, expires_in, secret, tokin, verify), what it raised or returned
\* (raised, msg, payload, key), and what it did (printed, signed; for a run
\* of the dispatcher: called, out, err, exit)
Idle ==
    [op |-> "idle", subject |-> None, expires_in |-> <<>>, secret |-> None,
     tokin |-> "absent", verify |-> FALSE,
     raised |-> "none", msg |-> "", payload |-> NoPayload, key |-> None,
     printed |-> FALSE, signed |-> FALSE,
     called |-> "none", out |-> <<>>, err |-> "", exit |-> 0]

Unparsed == [raised |-> "unparsed", seconds |-> 0]

Init ==
    /\ now = 0
    /\ tz \in Zones
    /\ env \in EnvValues
    /\ issued = NothingIssued
    /\ last = Idle
    /\ pin = <<>>
    /\ pout = Unparsed

---------------------------------------------------------------------------
(* Operations *)

\* a call of create_token
CreateToken ==
    \E caller \in Callers, expires_in \in ExpiresArgs, secret \in CreateSecrets :
        LET r == create_token(caller[1], caller[2], expires_in, secret,
                              env, tz, now)
        IN  /\ last' = [Idle EXCEPT !.op = "create_token",
                          !.expires_in = expires_in,
                          !.secret = secret, !.raised = r.raised,
                          !.payload = r.payload, !.key = r.key,
                          !.printed = r.printed, !.signed = r.signed]
            /\ issued' = IF r.raised = "none"
                         THEN [token |-> r.token, subject |-> caller[1],
                               expires_in |-> expires_in, secret |-> secret]
                         ELSE issued
            /\ UNCHANGED <<now, tz, env, pin, pout>>

\* a call of verify_token
VerifyToken ==
    \E kind \in TokenKinds, secret \in Secrets :
        LET r == verify_token(TokenInput(kind), secret, env, now)
        IN  /\ last' = [Idle EXCEPT !.op = "verify_token", !.tokin = kind,
                          !.secret = secret, !.raised = r.raised,
                          !.msg = r.msg, !.payload = r.payload, !.key = r.key]
            /\ UNCHANGED <<now, tz, env, issued, pin, pout>>

\* the clock moves on by an hour
Tick ==
    /\ now + Hour <= MaxHour * Hour
    /\ now' = now + Hour
    /\ last' = Idle
    /\ UNCHANGED <<tz, env, issued, pin, pout>>

Next == CreateToken \/ VerifyToken \/ Tick

Spec == Init /\ [][Next]_vars

---------------------------------------------------------------------------
(* The command-line dispatcher *)

\* the lines printed for a decoded payload (lines 93-95): the heading, then
\* one "key: value" line per claim
PayloadLines(payload) ==
    <<"Token is valid. Payload:", "sub: {sub}", "iat: {iat}", "exp: {exp}">>
    \o (IF payload.name # None THEN <<"name: {name}">> ELSE <<>>)

\* print(f"Error: {e}") (line 97)
ErrorLine(msg) ==
    IF msg = "Token has expired" THEN "Error: Token has expired"
    ELSE "Error: Invalid token"

\* Lines 76-100: a run of the dispatcher.  subject = None: --subject was not
\* given; tokin = "absent": --token was not given.  An argparse error exits
\* with 2 and a usage message; exit(1) and an uncaught exception exit with 1.
main(subject, name, expires, secret, verify, tokin, e, z, t) ==
    LET run == [Idle EXCEPT !.op = "main", !.subject = subject,
                  !.expires_in = expires, !.secret = secret,
                  !.verify = verify, !.tokin = tokin]
        v == verify_token(TokenInput(tokin), secret, e, t)
        c == create_token(subject, name, expires, secret, e, z, t)
    IN  IF subject = None
        THEN [run EXCEPT !.err = "usage", !.exit = 2]
        ELSE IF verify
        THEN IF tokin \in {"absent", "empty"}
             THEN [run EXCEPT !.exit = 1,
                     !.out = <<"Error: --token is required when using --verify">>]
             ELSE IF v.raised = "none"
             THEN [run EXCEPT !.called = "verify_token", !.key = v.key,
                     !.payload = v.payload, !.out = PayloadLines(v.payload)]
             ELSE IF v.raised = "ValueError"
             THEN [run EXCEPT !.called = "verify_token", !.key = v.key,
                     !.raised = v.raised, !.msg = v.msg,
                     !.out = <<ErrorLine(v.msg)>>]
             ELSE [run EXCEPT !.called = "verify_token", !.key = v.key,
                     !.raised = v.raised, !.err = "traceback", !.exit = 1]
        ELSE IF c.raised = "none"
             THEN [run EXCEPT !.called = "create_token", !.key = c.key,
                     !.payload = c.payload, !.printed = TRUE, !.signed = TRUE,
                     !.out = <<"create token: {payload}", "{token}">>]
             ELSE [run EXCEPT !.called = "create_token", !.key = c.key,
                     !.raised = c.raised, !.printed = c.printed,
                     !.out = IF c.printed THEN <<"create token: {payload}">>
                             ELSE <<>>,
                     !.err = "traceback", !.exit = 1]

\* a run in issue mode (no --verify) or in verify mode (--verify)
Main ==
    \E subject \in CliSubjects, secret \in CliSecrets, verify \in BOOLEAN :
      \E expires \in (IF verify THEN { <<"2", "4", "h">> } ELSE CliExpires),
         tokin \in (IF verify THEN CliTokens ELSE {"absent"}) :
        LET r == main(subject, None, expires, secret, verify, tokin, env, tz, now)
            c == create_token(subject, None, expires, secret, env, tz, now)
        IN  /\ last' = r
            /\ issued' = IF r.called = "create_token" /\ r.raised = "none"
                         THEN [token |-> c.token, subject |-> subject,
                               expires_in |-> expires, secret |-> secret]
                         ELSE issued
            /\ UNCHANGED <<now, tz, env, pin, pout>>

NextCli == Main \/ Tick

SpecCli == Init /\ [][NextCli]_vars

---------------------------------------------------------------------------
(* The duration parsing alone, over every shorthand of at most MaxLen
   characters *)

InitParse ==
    /\ now = 0
    /\ tz = UTC
    /\ env = EnvUnset
    /\ issued = NothingIssued
    /\ last = Idle
    /\ pin \in Shorthands
    /\ pout = Unparsed

Parse ==
    /\ pout = Unparsed
    /\ pout' = expires_delta(pin)
    /\ UNCHANGED <<now, tz, env, issued, last, pin>>

NextParse == Parse

SpecParse == InitParse /\ [][NextParse]_vars

---------------------------------------------------------------------------
(* Properties *)

\* the last step verified the token create_token returned last
VerifiedIssued ==
    /\ last.op = "verify_token"
    /\ last.tokin = "issued"
    /\ issued.token.form = "jws"

\* the three-tier order: the argument when one is given, else JWT_SECRET when
\* it is set, else the hardcoded fallback
ExpectedSecret(secret) ==
    IF secret \notin {None, ""} THEN secret
    ELSE IF env # EnvUnset THEN env
    ELSE "your-secret-key-here-replace-in-production"

\* the duration the issuing shorthand stands for, in seconds
IssuedSeconds == expires_delta(issued.expires_in).seconds

\* C1: verifying a token with the secret argument it was issued with, before
\* its expiry, returns claims whose sub is the subject passed to create_token
\* and whose exp - iat is the shorthand's duration in seconds.
RoundTrip ==
    (VerifiedIssued /\ last.secret = issued.secret
        /\ now < issued.token.payload.exp)
    => /\ last.raised = "none"
       /\ last.payload.sub = issued.subject
       /\ last.payload.exp - last.payload.iat = IssuedSeconds

\* C2: every payload create_token builds has exp > iat.
ExpAfterIat ==
    (last.op = "create_token" /\ last.raised = "none")
    => last.payload.exp > last.payload.iat

\* C3: a token issued at iat with duration d, verified with the issuing
\* secret, is returned at every clock value before iat + d and fails with
\* "Token has expired" at every clock value at or past iat + d.
ExpiryAtIatPlusD ==
    (VerifiedIssued /\ last.secret = issued.secret)
    => IF now < issued.token.payload.iat + IssuedSeconds
       THEN last.raised = "none"
       ELSE last.raised = "ValueError" /\ last.msg = "Token has expired"

\* C4 as stated: verifying a token with a secret argument different from the
\* issuing one fails with "Invalid token", None and "" included.  (Stated
\* for the verifying secrets the library accepts as HMAC keys; the others
\* are the subject of C6.)
MismatchedArgumentInvalid ==
    (VerifiedIssued /\ last.secret # issued.secret
        /\ ~IsAsymmetricKey(last.secret))
    => (last.raised = "ValueError" /\ last.msg = "Invalid token")

\* C4 as amended: verifying a token with a secret argument that resolves to a
\* key different from the issuing one never returns the claims, expired or
\* not: it fails with "Invalid token", or with the library's InvalidKeyError
\* when the verifying key is one the library refuses as an HMAC key.
MismatchedKeyInvalid ==
    (VerifiedIssued /\ ExpectedSecret(last.secret) # ExpectedSecret(issued.secret))
    => IF IsAsymmetricKey(ExpectedSecret(last.secret))
       THEN last.raised = "InvalidKeyError"
       ELSE last.raised = "ValueError" /\ last.msg = "Invalid token"

\* an expired token was verified under a different key and reported invalid
MismatchedKeyWitness ==
    /\ VerifiedIssued
    /\ ExpectedSecret(last.secret) # ExpectedSecret(issued.secret)
    /\ issued.token.payload.exp <= now
    /\ last.raised = "ValueError"
    /\ last.msg = "Invalid token"

\* C5: a shorthand ending in h with integer prefix n is n * 3600 seconds, one
\* ending in d is n * 86400 seconds, and any other shorthand is 86400 seconds;
\* "24h" is 86400, "7d" is 604800 and "30m" is 86400.
DurationParsing ==
    pout # Unparsed =>
        /\ (endswith(pin, "h") /\ IsIntLiteral(DropLast(pin)))
            => pout = [raised |-> "none", seconds |-> int(DropLast(pin)) * 3600]
        /\ (endswith(pin, "d") /\ IsIntLiteral(DropLast(pin)))
            => pout = [raised |-> "none", seconds |-> int(DropLast(pin)) * 86400]
        /\ (~endswith(pin, "h") /\ ~endswith(pin, "d"))
            => pout = [raised |-> "none", seconds |-> 86400]
        /\ pin = <<"2", "4", "h">> => pout.seconds = 86400
        /\ pin = <<"7", "d">> => pout.seconds = 604800
        /\ pin = <<"3", "0", "m">> => pout.seconds = 86400
        /\ pin = <<"-", "1", "d">> => pout.seconds = 0 - 86400
        /\ pin = <<"1", "7", "h">> => pout.seconds = 61200

\* "7d" was parsed to a week
DurationParsingWitness ==
    pin = <<"7", "d">> /\ pout = [raised |-> "none", seconds |-> 604800]

\* C6: verify_token returns the claims, or fails with a ValueError saying
\* "Token has expired" or "Invalid token"; nothing else escapes it.
ThreeOutcomes ==
    last.op = "verify_token"
    => \/ last.raised = "none"
       \/ /\ last.raised = "ValueError"
          /\ last.msg \in {"Token has expired", "Invalid token"}

\* C7: a run in verify mode without --token prints the missing-token error
\* and exits with 1, having called neither verify_token nor create_token.
MissingTokenExit ==
    (last.op = "main" /\ last.verify /\ last.tokin = "absent")
    => /\ last.exit = 1
       /\ last.out = <<"Error: --token is required when using --verify">>
       /\ last.called = "none"

\* C8: every run other than verify mode without a token exits with 0; a
\* failed verification prints only its "Error: ..." line.
ExitZeroOtherwise ==
    (last.op = "main" /\ ~(last.verify /\ last.tokin \in {"absent", "empty"}))
    => /\ last.exit = 0
       /\ (last.verify /\ last.raised # "none")
            => last.out \in { <<"Error: Token has expired">>,
                              <<"Error: Invalid token">> }

\* C9: create_token and verify_token sign and verify with the argument when
\* one is given, else with JWT_SECRET when it is set, else with the fallback;
\* given the same argument they use the same key.
SecretResolution ==
    /\ last.op \in {"create_token", "verify_token"}
        => last.key = ExpectedSecret(last.secret)
    /\ issued.token.form = "jws"
        => issued.token.sig.key = ExpectedSecret(issued.secret)
    /\ (VerifiedIssued /\ last.secret = issued.secret)
        => last.key = issued.token.sig.key

\* a token issued without a secret argument was verified without one, both
\* under the key JWT_SECRET holds
SecretResolutionWitness ==
    /\ VerifiedIssued
    /\ env = "k1"
    /\ last.secret = None
    /\ issued.secret = None
    /\ last.key = "k1"
    /\ issued.token.sig.key = "k1"

\* C10: create_token called with a shorthand ending in h or d whose prefix
\* is not an integer raises the ValueError of int(), returns no token, and
\* neither prints the payload nor signs anything.
MalformedPropagates ==
    (/\ last.op = "create_token"
     /\ endswith(last.expires_in, "h") \/ endswith(last.expires_in, "d")
     /\ ~IsIntLiteral(DropLast(last.expires_in)))
    => /\ last.raised = "ValueError"
       /\ last.payload = NoPayload
       /\ ~last.printed
       /\ ~last.signed
       /\ issued.expires_in # last.expires_in

\* create_token was called with "xd" after a token had been issued
MalformedPropagatesWitness ==
    /\ last.op = "create_token"
    /\ last.expires_in = <<"x", "d">>
    /\ last.raised = "ValueError"
    /\ issued.token.form = "jws"

===========================================================================
